---- MODULE Spec2Model ----
(***************************************************************************)
(* Model of the relational URL store (internal/repository/database), its   *)
(* asynchronous soft-delete pipeline (bounded channel, 3 workers, batch    *)
(* timer, Close) and of the allocation loop of the shortener service       *)
(* (internal/service/shortener) that runs on top of it; of the in-memory   *)
(* and file stores (internal/repository/memory, filestorage); of the       *)
(* shutdown sequence of cmd/shortener and of the status codes chosen by    *)
(* the HTTP handlers (internal/handler).                                   *)
(*                                                                         *)
(* Every SQL statement is one atomic step (PostgreSQL executes a single    *)
(* statement atomically); everything between two statements of one         *)
(* goroutine is local computation and is folded into the step that         *)
(* follows.  Rows are never physically removed.                            *)
(***************************************************************************)
EXTENDS Integers, Sequences, FiniteSets, TLC

\* ------------------------------------------------------------------ bounds
\* identifiers the generator can produce (62^6 in the program)
Ids == {"i1", "i2"}
\* original URLs offered by clients
URLs == {"v1", "v2"}
\* owners (resolved user ids)
Owners == {"u1", "u2"}
\* concurrent request goroutines running Shorten
Procs == {"p1", "p2"}
\* Shorten calls / offered delete tasks in a behaviour of Spec
SpecCalls == 1
SpecTasks == 1
\* Shorten calls in a behaviour of SpecStore
MaxShortenCalls == 3
\* Shorten calls in a behaviour of SpecCollide
MaxStoreCalls == 2
\* Shorten calls in a behaviour of SpecMem
MaxMemCalls == 2
\* Store calls in a behaviour of SpecFile
MaxFileCalls == 2
\* records of a file found at start
MaxRecs == 2
\* delete tasks offered to the queue in a behaviour of SpecShutdown
ShutdownTasks == 1
\* delete tasks offered to the queue in a behaviour of SpecLive
LiveTasks == 1
\* delete tasks offered to the queue in a behaviour of SpecPipe
MaxTasks == 2
\* capacity of DeleteChannel (1000 in the program, scaled)
queueCap == 1
\* batchSize of deleteWorker (100 in the program, scaled)
batchSize == 2
\* maxAttempts of Shorten (1000 in the program, scaled)
maxAttempts == 2

\* --------------------------------------------------------------- constants
\* number of delete workers started by initDeleteSystem
numWorkers == 3
Workers == 1..numWorkers

\* error values
ErrNil == "nil"
ErrNotFound == "NotFound"
ErrURLDeleted == "Gone"
ErrStore == "StoreError"
ErrConflict == "Conflict"
ErrExhausted == "Exhausted"
ErrNotImplemented == "NotImplemented"

NoStr == ""

\* model.DeleteTask
DeleteTask(userID, shortURL) == [UserID |-> userID, ShortURL |-> shortURL]
Tasks == {DeleteTask(u, i) : u \in Owners, i \in Ids}

VARIABLES
    table,          \* shortened_urls: short_url -> row
    dbOpen,         \* the *sql.DB handle has not been closed
    DeleteChannel,  \* buffered channel contents (FIFO)
    chClosed,       \* close(DeleteChannel) has happened
    WG,             \* sync.WaitGroup counter
    wpc,            \* worker -> "select" | "flush" | "done"
    taskBuffer,     \* worker -> local buffer of deleteWorker
    groups,         \* worker -> owners whose group is still to be updated
    closePc,        \* "open" | "waiting" | "returned"
    delPc,          \* DeleteURLs call in flight: "idle" | "loop"
    delUser,        \* userID of the DeleteURLs call in flight
    delRest,        \* identifiers of that call not yet offered
    spc,            \* Shorten call of a goroutine: "idle"|"probe"|"store"|"lookup"
    sreq,           \* goroutine -> [longURL, id, su, attempts] of its call
    race,           \* result of the first of two racing Shorten calls
    last,           \* the operation that produced the current state
    backend,        \* repository chosen by initRepository: "database" |
                    \* "memory" | "file" | "none" (not yet constructed)
    urls,           \* the urls map of the memory / file repository
    file,           \* content of the file at path, a sequence of tokens
    fileExists,     \* the file at path exists
    appPc,          \* position of main: "serving" and the steps of
                    \* gracefulShutdown
    timedOut,       \* the 30 s context of gracefulShutdown has expired
    exitCode,       \* exit status of the process, NoExit while it runs
    hist            \* history: calls and tasks still allowed, pending = tasks
                    \* accepted by the queue and not yet part of an update,
                    \* applied = (owner, id) of the successful updates executed
                    \* since the row of id was inserted, shortened = successful
                    \* Shorten results, sendPanic = a send hit the closed queue

vars == <<table, dbOpen, DeleteChannel, chClosed, WG, wpc, taskBuffer, groups,
          closePc, delPc, delUser, delRest, spc, sreq, race, last, backend,
          urls, file, fileExists, appPc, timedOut, exitCode, hist>>

dbVars == <<table, dbOpen>>
pipeVars == <<DeleteChannel, chClosed, WG, wpc, taskBuffer, groups, closePc>>
delVars == <<delPc, delUser, delRest>>
shortenVars == <<spc, sreq, race>>
fileVars == <<urls, file, fileExists>>
appVars == <<appPc, timedOut, exitCode>>
\* what the relational store and its callers never touch
extVars == <<backend, fileVars, appVars>>

\* the process has not exited
NoExit == -1
Running == exitCode = NoExit

\* ------------------------------------------------------------ SQL helpers
Row(longURL, userID, createdAt) ==
    [long_url |-> longURL, user_id |-> userID,
     is_deleted |-> FALSE, created_at |-> createdAt]

\* rows whose long_url is the given one (at most one by the UNIQUE constraint)
RowsWithLong(tbl, longURL) == {s \in DOMAIN tbl : tbl[s].long_url = longURL}

\* the result of a finished Shorten call (su, err); existing is the payload
\* of ErrURLConflictError, fresh tells that longURL was unmapped at the call
NoRes == [who |-> NoStr, longURL |-> NoStr, su |-> NoStr, err |-> ErrNil,
          existing |-> NoStr, fresh |-> FALSE]

\* probes and stores count the Get probes and the Store calls of a Shorten
\* call, pairs is the list returned by GetUserURLs, prev the urls map of the
\* file repository that was closed, status and body the HTTP response
NoOp == [op |-> "none", who |-> NoStr, id |-> NoStr, url |-> NoStr,
         err |-> ErrNil, owner |-> NoStr, ids |-> {}, changed |-> {},
         cand |-> NoStr, existing |-> NoStr, fresh |-> FALSE, peer |-> NoRes,
         probes |-> 0, stores |-> 0, pairs |-> <<>>, prev |-> <<>>,
         status |-> 0, body |-> <<>>]

\* variant: Get without the is_deleted check
GetIgnoringDeleted(tbl, open, shortURL) ==
    IF ~open THEN [url |-> NoStr, err |-> ErrStore]
    ELSE IF shortURL \notin DOMAIN tbl THEN [url |-> NoStr, err |-> ErrNotFound]
    ELSE [url |-> tbl[shortURL].long_url, err |-> ErrNil]

\* URLRepository.Get
Get(tbl, open, shortURL) ==
    IF ~open THEN [url |-> NoStr, err |-> ErrStore]
    ELSE IF shortURL \notin DOMAIN tbl THEN [url |-> NoStr, err |-> ErrNotFound]
    ELSE IF tbl[shortURL].is_deleted THEN [url |-> NoStr, err |-> ErrURLDeleted]
    ELSE [url |-> tbl[shortURL].long_url, err |-> ErrNil]

\* variant: the lookup without its WHERE clause
getByLongURLAnyRow(tbl, open, longURL) ==
    IF ~open THEN [short |-> NoStr, err |-> ErrStore]
    ELSE IF DOMAIN tbl = {} THEN [short |-> NoStr, err |-> ErrNotFound]
    ELSE [short |-> CHOOSE s \in DOMAIN tbl : TRUE, err |-> ErrNil]

\* URLRepository.getByLongURL
getByLongURL(tbl, open, longURL) ==
    IF ~open THEN [short |-> NoStr, err |-> ErrStore]
    ELSE IF RowsWithLong(tbl, longURL) = {} THEN [short |-> NoStr, err |-> ErrNotFound]
    ELSE [short |-> CHOOSE s \in RowsWithLong(tbl, longURL) : TRUE, err |-> ErrNil]

\* variant: a schema without the UNIQUE constraint on long_url
UniqueViolationShortOnly(tbl, shortURL, longURL) ==
    shortURL \in DOMAIN tbl

\* variant: a schema without the UNIQUE constraint on short_url
UniqueViolationLongOnly(tbl, shortURL, longURL) ==
    RowsWithLong(tbl, longURL) # {}

\* the two UNIQUE constraints of the migration, checked by the INSERT
UniqueViolation(tbl, shortURL, longURL) ==
    \/ shortURL \in DOMAIN tbl
    \/ RowsWithLong(tbl, longURL) # {}

\* the INSERT of Store on a table that accepts the row
InsertRow(tbl, shortURL, longURL, userID) ==
    [s \in DOMAIN tbl \cup {shortURL} |->
        IF s = shortURL
        THEN Row(longURL, userID, Cardinality(DOMAIN tbl) + 1)
        ELSE tbl[s]]

\* variant: the UPDATE without its user_id condition
batchDeleteURLsAnyOwner(tbl, userID, shortURLs) ==
    [s \in DOMAIN tbl |->
        IF s \in shortURLs /\ tbl[s].is_deleted = FALSE
        THEN [tbl[s] EXCEPT !.is_deleted = TRUE]
        ELSE tbl[s]]

\* variant: the UPDATE flips the flag instead of setting it
batchDeleteURLsToggle(tbl, userID, shortURLs) ==
    [s \in DOMAIN tbl |->
        IF tbl[s].user_id = userID /\ s \in shortURLs
        THEN [tbl[s] EXCEPT !.is_deleted = ~@]
        ELSE tbl[s]]

\* the UPDATE of batchDeleteURLs
batchDeleteURLs(tbl, userID, shortURLs) ==
    [s \in DOMAIN tbl |->
        IF tbl[s].user_id = userID /\ s \in shortURLs /\ tbl[s].is_deleted = FALSE
        THEN [tbl[s] EXCEPT !.is_deleted = TRUE]
        ELSE tbl[s]]

\* the rows of an owner
OwnedBy(tbl, userID) == {s \in DOMAIN tbl : tbl[s].user_id = userID}

\* the rows of a set listed by created_at, most recent first
ByCreatedAtDesc(tbl, S) ==
    CHOOSE q \in [1..Cardinality(S) -> S] :
        /\ \A i, j \in DOMAIN q : i # j => q[i] # q[j]
        /\ \A i, j \in DOMAIN q :
              i < j => tbl[q[i]].created_at >= tbl[q[j]].created_at

URLPair(tbl, s) == [ShortURL |-> s, OriginalURL |-> tbl[s].long_url]

\* variant: the SELECT restricted to rows that are not deleted
GetUserURLsLiveOnly(tbl, open, userID) ==
    IF ~open THEN [pairs |-> <<>>, err |-> ErrStore]
    ELSE LET q == ByCreatedAtDesc(tbl, {s \in OwnedBy(tbl, userID) :
                                           ~tbl[s].is_deleted})
         IN [pairs |-> [i \in DOMAIN q |-> URLPair(tbl, q[i])], err |-> ErrNil]

\* database URLRepository.GetUserURLs
GetUserURLs(tbl, open, userID) ==
    IF ~open THEN [pairs |-> <<>>, err |-> ErrStore]
    ELSE LET q == ByCreatedAtDesc(tbl, OwnedBy(tbl, userID))
         IN [pairs |-> [i \in DOMAIN q |-> URLPair(tbl, q[i])], err |-> ErrNil]

\* ------------------------------------------- memory and file repositories
\* Get of the memory and of the file repository: a lookup in r.urls
MemGet(m, shortURL) ==
    IF shortURL \in DOMAIN m THEN [url |-> m[shortURL], err |-> ErrNil]
    ELSE [url |-> NoStr, err |-> ErrNotFound]

\* r.urls[shortURL] = longURL
MemPut(m, shortURL, longURL) ==
    [s \in DOMAIN m \cup {shortURL} |-> IF s = shortURL THEN longURL ELSE m[s]]

\* the characters of an original URL: the two URLs differ in length
Text(v) == IF v = "v1" THEN <<"h">> ELSE <<"h", "t">>
Letters == {"h", "t"}
\* the URL spelled by a run of characters
Untext(cs) ==
    IF \E v \in URLs : Text(v) = cs THEN CHOOSE v \in URLs : Text(v) = cs
    ELSE "other"

\* model.URLRecord as json.Marshal writes it (the UUID has a fixed length
\* and is never read back, it is left out)
MarshalRecord(rec) == <<"{", rec.ShortURL, ":">> \o Text(rec.OriginalURL) \o <<"}">>

RECURSIVE MarshalFrom(_, _)
MarshalFrom(recs, i) ==
    IF i > Len(recs) THEN <<"]">>
    ELSE (IF i > 1 THEN <<",">> ELSE <<>>)
         \o MarshalRecord(recs[i]) \o MarshalFrom(recs, i + 1)

\* json.Marshal(urls) of a []model.URLRecord
Marshal(recs) == <<"[">> \o MarshalFrom(recs, 1)

\* the orders in which `for key, value := range r.urls` can visit the map
Orders(m) ==
    {q \in [1..Cardinality(DOMAIN m) -> DOMAIN m] :
        \A i, j \in DOMAIN q : i # j => q[i] # q[j]}

\* the slice built by SaveURLToFile when the map is visited in order q
RecordsOf(m, q) ==
    [i \in DOMAIN q |-> [ShortURL |-> q[i], OriginalURL |-> m[q[i]]]]

\* index of the first "}" at or after i, 0 when a token that cannot be part
\* of a string comes first or the input ends
RECURSIVE StringEnd(_, _)
StringEnd(toks, i) ==
    IF i > Len(toks) THEN 0
    ELSE IF toks[i] = "}" THEN i
    ELSE IF toks[i] \in Letters THEN StringEnd(toks, i + 1)
    ELSE 0

NoParse == [ok |-> FALSE, recs |-> <<>>]

\* variant: a decoder that stops at the closing bracket and ignores what
\* follows it
RECURSIVE UnmarshalFromLenient(_, _, _)
UnmarshalFromLenient(toks, i, acc) ==
    IF i + 3 > Len(toks) THEN NoParse
    ELSE IF toks[i] # "{" \/ toks[i + 1] \notin Ids \/ toks[i + 2] # ":" THEN NoParse
    ELSE LET j == StringEnd(toks, i + 3)
             rec == [ShortURL |-> toks[i + 1],
                     OriginalURL |-> Untext(SubSeq(toks, i + 3, j - 1))]
         IN IF j = 0 \/ j + 1 > Len(toks) THEN NoParse
            ELSE IF toks[j + 1] = "," THEN UnmarshalFromLenient(toks, j + 2, Append(acc, rec))
            ELSE IF toks[j + 1] = "]"
            THEN [ok |-> TRUE, recs |-> Append(acc, rec)]
            ELSE NoParse

\* the records of a JSON array starting at token i; anything after the
\* closing bracket is an error
RECURSIVE UnmarshalFrom(_, _, _)
UnmarshalFrom(toks, i, acc) ==
    IF i + 3 > Len(toks) THEN NoParse
    ELSE IF toks[i] # "{" \/ toks[i + 1] \notin Ids \/ toks[i + 2] # ":" THEN NoParse
    ELSE LET j == StringEnd(toks, i + 3)
             rec == [ShortURL |-> toks[i + 1],
                     OriginalURL |-> Untext(SubSeq(toks, i + 3, j - 1))]
         IN IF j = 0 \/ j + 1 > Len(toks) THEN NoParse
            ELSE IF toks[j + 1] = "," THEN UnmarshalFrom(toks, j + 2, Append(acc, rec))
            ELSE IF toks[j + 1] = "]" /\ j + 1 = Len(toks)
            THEN [ok |-> TRUE, recs |-> Append(acc, rec)]
            ELSE NoParse

\* json.Unmarshal(data, &urlRecord)
Unmarshal(toks) ==
    IF Len(toks) < 2 \/ toks[1] # "[" THEN NoParse
    ELSE IF toks[2] = "]"
    THEN (IF Len(toks) = 2 THEN [ok |-> TRUE, recs |-> <<>>] ELSE NoParse)
    ELSE UnmarshalFrom(toks, 2, <<>>)

\* the loop of loadURLs: later records overwrite earlier ones
RECURSIVE PutAll(_, _, _)
PutAll(m, recs, i) ==
    IF i > Len(recs) THEN m
    ELSE PutAll(MemPut(m, recs[i].ShortURL, recs[i].OriginalURL), recs, i + 1)

\* loadURLs: err is set when the file cannot be opened or decoded
loadURLs(exists, toks) ==
    IF ~exists THEN [err |-> TRUE, urls |-> <<>>]
    ELSE IF ~Unmarshal(toks).ok THEN [err |-> TRUE, urls |-> <<>>]
    ELSE [err |-> FALSE, urls |-> PutAll(<<>>, Unmarshal(toks).recs, 1)]

\* the urls map of the repository returned by filestorage.NewURLRepository
NewURLRepository(exists, toks) ==
    IF loadURLs(exists, toks).err THEN <<>> ELSE loadURLs(exists, toks).urls

\* SaveURLToFile: the file is opened O_RDWR|O_CREATE and data is written at
\* offset 0; bytes of the old content beyond len(data) stay in the file
SaveURLToFile(m, q, toks) ==
    LET data == Marshal(RecordsOf(m, q))
    IN data \o SubSeq(toks, Len(data) + 1, Len(toks))

\* GetUserURLs of the memory and of the file repository
MemGetUserURLs(userID) == [pairs |-> <<>>, err |-> ErrNotImplemented]

\* variant: DeleteURLs that removes the identifiers from the map
MemDeleteURLsRemoving(m, userID, urlIDs) ==
    [s \in DOMAIN m \ {urlIDs[k] : k \in DOMAIN urlIDs} |-> m[s]]

\* DeleteURLs of the memory and of the file repository: the map as the call
\* leaves it
MemDeleteURLs(m, userID, urlIDs) == m

\* the GetUserURLs of the repository behind the interface
RepoGetUserURLs(userID) ==
    IF backend = "database" THEN GetUserURLs(table, dbOpen, userID)
    ELSE MemGetUserURLs(userID)

\* the Get of the repository behind the repository.URLRepository interface
RepoGet(shortURL) ==
    IF backend = "database" THEN Get(table, dbOpen, shortURL)
    ELSE MemGet(urls, shortURL)

\* variant: only an unknown identifier counts as unused
isUniqNotFoundOnly(shortURL) == RepoGet(shortURL).err = ErrNotFound

\* URLService.isUniq
isUniq(shortURL) == RepoGet(shortURL).err # ErrNil

\* ---------------------------------------------------------------- helpers
SeqsUpTo(S, n) == UNION {[1..k -> S] : k \in 0..n}

CountIn(seq, t) == Cardinality({k \in DOMAIN seq : seq[k] = t})

\* processBatch: the grouping of a buffer by UserID
GroupOwners(tasks) == {tasks[k].UserID : k \in DOMAIN tasks}
\* variant: every buffered identifier is attached to every group
GroupIdsAll(tasks, userID) == {tasks[k].ShortURL : k \in DOMAIN tasks}

\* groups[userID] of processBatch, as the set of its elements
GroupIds(tasks, userID) ==
    {tasks[k].ShortURL : k \in {j \in DOMAIN tasks : tasks[j].UserID = userID}}

NoReq == [longURL |-> NoStr, id |-> NoStr, su |-> NoStr, attempts |-> 0,
          fresh |-> FALSE, probes |-> 0, stores |-> 0]

NoHist == [calls |-> 0, tasks |-> 0, pending |-> [t \in Tasks |-> 0],
           applied |-> {}, shortened |-> {}, sendPanic |-> FALSE]

\* ------------------------------------------------------------------- Init
\* database.NewURLRepository(db): channel made, 3 workers started, nothing in
\* flight; tbl is what the database holds, calls and tasks bound the behaviour
InitRepo(tbl, calls, tasks) ==
    /\ table = tbl
    /\ dbOpen = TRUE
    /\ DeleteChannel = <<>>
    /\ chClosed = FALSE
    /\ WG = numWorkers
    /\ wpc = [w \in Workers |-> "select"]
    /\ taskBuffer = [w \in Workers |-> <<>>]
    /\ groups = [w \in Workers |-> {}]
    /\ closePc = "open"
    /\ delPc = "idle"
    /\ delUser = NoStr
    /\ delRest = <<>>
    /\ spc = [p \in Procs |-> "idle"]
    /\ sreq = [p \in Procs |-> NoReq]
    /\ race = NoRes
    /\ last = NoOp
    /\ hist = [NoHist EXCEPT !.calls = calls, !.tasks = tasks]
    /\ appPc = "serving"
    /\ timedOut = FALSE
    /\ exitCode = NoExit

\* the program started on the relational store
InitWith(tbl, calls, tasks) ==
    /\ InitRepo(tbl, calls, tasks)
    /\ backend = "database"
    /\ urls = <<>>
    /\ file = <<>>
    /\ fileExists = FALSE

\* ------------------------------------------------- URLService.GetLongURL
GetLongURL(shortURL) ==
    /\ Running
    /\ backend # "none"
    /\ last' = [NoOp EXCEPT !.op = "Get", !.id = shortURL,
                            !.url = RepoGet(shortURL).url,
                            !.err = RepoGet(shortURL).err]
    /\ UNCHANGED <<dbVars, pipeVars, delVars, shortenVars, hist>>
    /\ UNCHANGED extVars

\* ------------------------------------------------ URLService.GetUserURLs
GetUserURLsCall(userID) ==
    /\ Running
    /\ last' = [NoOp EXCEPT !.op = "list", !.owner = userID,
                            !.pairs = RepoGetUserURLs(userID).pairs,
                            !.err = RepoGetUserURLs(userID).err]
    /\ UNCHANGED <<dbVars, pipeVars, delVars, shortenVars, hist, extVars>>

\* ---------------------------------------------------- URLService.Shorten
\* a request goroutine enters Shorten(longURL, id)
ShortenCall(p, longURL, id) ==
    /\ Running
    /\ spc[p] = "idle"
    /\ hist.calls > 0
    /\ spc' = [spc EXCEPT ![p] = "probe"]
    /\ sreq' = [sreq EXCEPT ![p] =
                  [NoReq EXCEPT !.longURL = longURL, !.id = id,
                                !.fresh = (RowsWithLong(table, longURL) = {})]]
    /\ hist' = [hist EXCEPT !.calls = @ - 1]
    /\ race' = NoRes
    /\ last' = NoOp
    /\ UNCHANGED <<dbVars, pipeVars, delVars>>
    /\ UNCHANGED extVars

\* Shorten returns (su, err) to its caller; when another goroutine is still
\* inside Shorten for the same longURL the result is kept in race, and the
\* result of the second of the two carries the first one as its peer
ShortenReturn(p, su, err, existing) ==
    LET res == [who |-> p, longURL |-> sreq[p].longURL, su |-> su, err |-> err,
                existing |-> existing, fresh |-> sreq[p].fresh]
        racing == \E q \in Procs \ {p} :
                      spc[q] # "idle" /\ sreq[q].longURL = sreq[p].longURL
    IN /\ spc' = [spc EXCEPT ![p] = "idle"]
       /\ sreq' = [sreq EXCEPT ![p] = NoReq]
       /\ race' = IF racing THEN res ELSE NoRes
       /\ last' = [NoOp EXCEPT !.op = "Shorten", !.who = p, !.id = su,
                               !.url = sreq[p].longURL, !.owner = sreq[p].id,
                               !.err = err, !.existing = existing,
                               !.cand = sreq[p].su, !.fresh = sreq[p].fresh,
                               !.probes = sreq[p].probes +
                                  (IF spc[p] = "probe" THEN 1 ELSE 0),
                               !.stores = sreq[p].stores,
                               !.peer = IF race.longURL = sreq[p].longURL
                                        THEN race ELSE NoRes]

\* one iteration of the loop up to the Store call: su := shortURL(6); isUniq(su)
ShortenProbe(p, su) ==
    /\ Running
    /\ spc[p] = "probe"
    /\ IF isUniq(su)
       THEN /\ spc' = [spc EXCEPT ![p] = "store"]
            /\ sreq' = [sreq EXCEPT ![p].su = su, ![p].probes = @ + 1,
                                    ![p].stores = @ + 1]
            /\ last' = [NoOp EXCEPT !.op = "probe", !.who = p, !.cand = su]
            /\ UNCHANGED race
       ELSE IF sreq[p].attempts + 1 >= maxAttempts
       THEN ShortenReturn(p, NoStr, ErrExhausted, NoStr)
       ELSE /\ sreq' = [sreq EXCEPT ![p].attempts = @ + 1, ![p].probes = @ + 1]
            /\ last' = [NoOp EXCEPT !.op = "probe", !.who = p, !.cand = su]
            /\ UNCHANGED <<spc, race>>
    /\ UNCHANGED <<dbVars, pipeVars, delVars, hist>>
    /\ UNCHANGED extVars

\* Store: the INSERT statement
StoreInsert(p) ==
    /\ Running
    /\ backend = "database"
    /\ spc[p] = "store"
    /\ IF ~dbOpen
       THEN /\ ShortenReturn(p, NoStr, ErrStore, NoStr)
            /\ UNCHANGED <<table, hist>>
       ELSE IF UniqueViolation(table, sreq[p].su, sreq[p].longURL)
       THEN /\ spc' = [spc EXCEPT ![p] = "lookup"]
            /\ last' = [NoOp EXCEPT !.op = "violation", !.who = p]
            /\ UNCHANGED <<table, sreq, race, hist>>
       ELSE /\ table' = InsertRow(table, sreq[p].su, sreq[p].longURL, sreq[p].id)
            /\ hist' = [hist EXCEPT
                          !.shortened = @ \cup
                             {[su |-> sreq[p].su, longURL |-> sreq[p].longURL,
                               owner |-> sreq[p].id]},
                          !.applied = {a \in @ : a[2] # sreq[p].su}]
            /\ ShortenReturn(p, sreq[p].su, ErrNil, NoStr)
    /\ UNCHANGED <<dbOpen, pipeVars, delVars>>
    /\ UNCHANGED extVars

\* Store: the follow-up getByLongURL after a unique violation
StoreLookup(p) ==
    /\ Running
    /\ spc[p] = "lookup"
    /\ IF getByLongURL(table, dbOpen, sreq[p].longURL).err # ErrNil
       THEN ShortenReturn(p, NoStr, ErrStore, NoStr)
       ELSE ShortenReturn(p, NoStr, ErrConflict,
                          getByLongURL(table, dbOpen, sreq[p].longURL).short)
    /\ UNCHANGED <<dbVars, pipeVars, delVars, hist>>
    /\ UNCHANGED extVars

\* ------------------------------------- Store and DeleteURLs, memory / file
\* Store is entered: the statement r.urls[shortURL] = longURL begins; no
\* lock is taken
MemStoreBegin(p) ==
    /\ Running
    /\ backend \in {"memory", "file"}
    /\ spc[p] = "store"
    /\ spc' = [spc EXCEPT ![p] = "writing"]
    /\ last' = NoOp
    /\ UNCHANGED <<dbVars, pipeVars, delVars, sreq, race, hist, extVars>>

\* the map write takes effect, the file repository rewrites the file with
\* the map visited in order q, Store returns nil and Shorten returns su
MemStoreEnd(p, q) ==
    /\ Running
    /\ backend \in {"memory", "file"}
    /\ spc[p] = "writing"
    /\ q \in Orders(MemPut(urls, sreq[p].su, sreq[p].longURL))
    /\ urls' = MemPut(urls, sreq[p].su, sreq[p].longURL)
    /\ file' = IF backend = "file" THEN SaveURLToFile(urls', q, file) ELSE file
    /\ fileExists' = (fileExists \/ backend = "file")
    /\ hist' = [hist EXCEPT
                  !.shortened = @ \cup
                     {[su |-> sreq[p].su, longURL |-> sreq[p].longURL,
                       owner |-> sreq[p].id]}]
    /\ ShortenReturn(p, sreq[p].su, ErrNil, NoStr)
    /\ UNCHANGED <<dbVars, pipeVars, delVars, backend, appVars>>

\* two goroutines are inside an unsynchronised access to r.urls, one of them
\* writing: the Go runtime may stop the process with "fatal error:
\* concurrent map writes" / "concurrent map read and map write"
MapRaceFatal ==
    /\ Running
    /\ backend \in {"memory", "file"}
    /\ \E p, r \in Procs :
          p # r /\ spc[p] = "writing" /\ spc[r] \in {"writing", "probe"}
    /\ exitCode' = 2
    /\ appPc' = "exited"
    /\ last' = [NoOp EXCEPT !.op = "fatal"]
    /\ UNCHANGED <<dbVars, pipeVars, delVars, shortenVars, hist, backend,
                   fileVars, timedOut>>

\* ------------------------------------------- filestorage.URLRepository
\* filestorage.NewURLRepository(path) in a process that starts, for the
\* first time or after the repository of the previous process was closed
NewFileRepository ==
    /\ Running
    /\ backend = "none" \/ (backend = "file" /\ closePc = "returned")
    /\ backend' = "file"
    /\ urls' = NewURLRepository(fileExists, file)
    /\ closePc' = "open"
    /\ last' = [NoOp EXCEPT !.op = "open", !.prev = urls,
                            !.who = IF backend = "file" THEN "reopened"
                                    ELSE "started"]
    /\ UNCHANGED <<dbVars, DeleteChannel, chClosed, WG, wpc, taskBuffer, groups,
                   delVars, shortenVars, hist, file, fileExists, appVars>>

\* Store(shortURL, longURL, _) called on the file repository: the map is
\* updated and SaveURLToFile rewrites the file, visiting the map in order q
FileStore(shortURL, longURL, q) ==
    /\ Running
    /\ backend = "file"
    /\ closePc = "open"
    /\ hist.calls > 0
    /\ q \in Orders(MemPut(urls, shortURL, longURL))
    /\ urls' = MemPut(urls, shortURL, longURL)
    /\ file' = SaveURLToFile(urls', q, file)
    /\ fileExists' = TRUE
    /\ hist' = [hist EXCEPT !.calls = @ - 1]
    /\ last' = [NoOp EXCEPT !.op = "Store", !.id = shortURL, !.url = longURL,
                            !.prev = urls]
    /\ UNCHANGED <<dbVars, pipeVars, delVars, shortenVars, backend, appVars>>

\* Close of the file repository: return r.SaveURLToFile()
FileClose(q) ==
    /\ Running
    /\ backend = "file"
    /\ closePc = "open"
    /\ q \in Orders(urls)
    /\ file' = SaveURLToFile(urls, q, file)
    /\ fileExists' = TRUE
    /\ closePc' = "returned"
    /\ last' = [NoOp EXCEPT !.op = "Close"]
    /\ UNCHANGED <<dbVars, DeleteChannel, chClosed, WG, wpc, taskBuffer, groups,
                   delVars, shortenVars, hist, backend, urls, appVars>>

\* DeleteURLs of the memory / file repository: a message is printed
MemDeleteURLsCall(userID, urlIDs) ==
    /\ Running
    /\ backend \in {"memory", "file"}
    /\ urls' = MemDeleteURLs(urls, userID, urlIDs)
    /\ last' = [NoOp EXCEPT !.op = "delete", !.owner = userID,
                            !.ids = {urlIDs[k] : k \in DOMAIN urlIDs},
                            !.prev = urls]
    /\ UNCHANGED <<dbVars, pipeVars, delVars, shortenVars, hist, backend, file,
                   fileExists, appVars>>

\* -------------------------------------------------- URLRepository.DeleteURLs
\* a request goroutine enters DeleteURLs(userID, urlIDs); once
\* server.Shutdown has returned nil no request handler is running any more
DeleteURLsCall(userID, urlIDs) ==
    /\ Running
    /\ appPc \in {"serving", "serverShutdown"} \/ timedOut
    /\ delPc = "idle"
    /\ Len(urlIDs) <= hist.tasks
    /\ delPc' = IF urlIDs = <<>> THEN "idle" ELSE "loop"
    /\ delUser' = IF urlIDs = <<>> THEN NoStr ELSE userID
    /\ delRest' = urlIDs
    /\ last' = NoOp
    /\ UNCHANGED <<dbVars, pipeVars, shortenVars, hist>>
    /\ UNCHANGED extVars

\* variant: a plain send, which waits while the channel is full
TrySendBlocking(ch, closed, task) ==
    IF closed THEN [outcome |-> "panic", ch |-> ch]
    ELSE IF Len(ch) < queueCap THEN [outcome |-> "sent", ch |-> Append(ch, task)]
    ELSE [outcome |-> "blocked", ch |-> ch]

\* variant: a channel without a capacity
TrySendUnbounded(ch, closed, task) ==
    IF closed THEN [outcome |-> "panic", ch |-> ch]
    ELSE [outcome |-> "sent", ch |-> Append(ch, task)]

\* the outcome of one non-blocking send: select { case ch <- task: default: }
TrySend(ch, closed, task) ==
    IF closed THEN [outcome |-> "panic", ch |-> ch]
    ELSE IF Len(ch) < queueCap THEN [outcome |-> "sent", ch |-> Append(ch, task)]
    ELSE [outcome |-> "dropped", ch |-> ch]

\* one iteration of the loop of DeleteURLs
DeleteURLsOffer ==
    /\ Running
    /\ delPc = "loop"
    /\ LET task == DeleteTask(delUser, Head(delRest))
           r == TrySend(DeleteChannel, chClosed, task)
           finished == r.outcome = "panic" \/ Len(delRest) = 1
       IN /\ r.outcome \in {"panic", "sent", "dropped"}
          /\ DeleteChannel' = r.ch
          /\ delRest' = IF finished THEN <<>> ELSE Tail(delRest)
          /\ delPc' = IF finished THEN "idle" ELSE "loop"
          /\ delUser' = IF finished THEN NoStr ELSE delUser
          /\ hist' = [hist EXCEPT
                        !.tasks = @ - 1,
                        !.pending[task] = IF r.outcome = "sent" THEN @ + 1 ELSE @,
                        !.sendPanic = @ \/ r.outcome = "panic"]
          /\ last' = [NoOp EXCEPT !.op = "offer", !.owner = task.UserID,
                                  !.id = task.ShortURL, !.err = r.outcome]
    /\ UNCHANGED <<dbVars, chClosed, WG, wpc, taskBuffer, groups, closePc,
                   shortenVars>>
    /\ UNCHANGED extVars

\* ------------------------------------------------ URLRepository.deleteWorker
\* processBatch(taskBuffer) starts: the buffer is grouped by UserID
StartBatch(w, buf) ==
    /\ wpc' = [wpc EXCEPT ![w] = "flush"]
    /\ taskBuffer' = [taskBuffer EXCEPT ![w] = buf]
    /\ groups' = [groups EXCEPT ![w] = GroupOwners(buf)]

\* case task, ok := <-r.DeleteChannel with ok = true
WorkerReceive(w) ==
    /\ Running
    /\ wpc[w] = "select"
    /\ DeleteChannel # <<>>
    /\ DeleteChannel' = Tail(DeleteChannel)
    /\ LET buf == Append(taskBuffer[w], Head(DeleteChannel))
       IN IF Len(buf) >= batchSize
          THEN StartBatch(w, buf)
          ELSE /\ taskBuffer' = [taskBuffer EXCEPT ![w] = buf]
               /\ UNCHANGED <<wpc, groups>>
    /\ last' = NoOp
    /\ UNCHANGED <<dbVars, chClosed, WG, closePc, delVars, shortenVars, hist>>
    /\ UNCHANGED extVars

\* variant: a worker that returns without the deferred WG.Done()
WorkerClosedNoDone(w) ==
    /\ Running
    /\ wpc[w] = "select"
    /\ chClosed
    /\ DeleteChannel = <<>>
    /\ wpc' = [wpc EXCEPT ![w] = "done"]
    /\ taskBuffer' = [taskBuffer EXCEPT ![w] = <<>>]
    /\ last' = NoOp
    /\ UNCHANGED <<dbVars, DeleteChannel, chClosed, WG, groups, closePc, delVars,
                   shortenVars, hist>>
    /\ UNCHANGED extVars

\* case task, ok := <-r.DeleteChannel with ok = false: return; defer WG.Done()
WorkerClosed(w) ==
    /\ Running
    /\ wpc[w] = "select"
    /\ chClosed
    /\ DeleteChannel = <<>>
    /\ wpc' = [wpc EXCEPT ![w] = "done"]
    /\ taskBuffer' = [taskBuffer EXCEPT ![w] = <<>>]
    /\ WG' = WG - 1
    /\ last' = NoOp
    /\ UNCHANGED <<dbVars, DeleteChannel, chClosed, groups, closePc, delVars,
                   shortenVars, hist>>
    /\ UNCHANGED extVars

\* variant: a timer branch that only re-arms the timer
WorkerTimerIdle(w) ==
    /\ Running
    /\ wpc[w] = "select"
    /\ last' = NoOp
    /\ UNCHANGED <<dbVars, pipeVars, delVars, shortenVars, hist>>
    /\ UNCHANGED extVars

\* case <-timer.C
WorkerTimer(w) ==
    /\ Running
    /\ wpc[w] = "select"
    /\ IF Len(taskBuffer[w]) > 0
       THEN StartBatch(w, taskBuffer[w])
       ELSE UNCHANGED <<wpc, taskBuffer, groups>>
    /\ last' = NoOp
    /\ UNCHANGED <<dbVars, DeleteChannel, chClosed, WG, closePc, delVars,
                   shortenVars, hist>>
    /\ UNCHANGED extVars

\* variant: a failed update keeps its group, so that it is issued again
WorkerUpdateRetry(w, userID, ok) ==
    /\ Running
    /\ wpc[w] = "flush"
    /\ userID \in groups[w]
    /\ ok => dbOpen
    /\ LET shortURLs == GroupIds(taskBuffer[w], userID)
           rest == IF ok THEN groups[w] \ {userID} ELSE groups[w]
       IN /\ table' = IF ok THEN batchDeleteURLs(table, userID, shortURLs)
                      ELSE table
          /\ groups' = [groups EXCEPT ![w] = rest]
          /\ wpc' = [wpc EXCEPT ![w] = IF rest = {} THEN "select" ELSE "flush"]
          /\ taskBuffer' = [taskBuffer EXCEPT ![w] =
                               IF rest = {} THEN <<>> ELSE @]
          /\ hist' = [hist EXCEPT
                        !.pending = [t \in Tasks |->
                            IF t.UserID = userID
                            THEN @[t] - CountIn(taskBuffer[w], t) ELSE @[t]],
                        !.applied = IF ok
                                    THEN @ \cup {<<userID, s>> : s \in shortURLs}
                                    ELSE @]
          /\ last' = [NoOp EXCEPT !.op = "update", !.who = ToString(w),
                                  !.owner = userID, !.ids = shortURLs,
                                  !.changed = {s \in DOMAIN table :
                                      table'[s].is_deleted # table[s].is_deleted},
                                  !.err = IF ok THEN ErrNil ELSE ErrStore]
    /\ UNCHANGED <<dbOpen, DeleteChannel, chClosed, WG, closePc, delVars,
                   shortenVars>>
    /\ UNCHANGED extVars

\* one iteration of the loop over groups in processBatch: batchDeleteURLs for
\* one owner (map iteration order is arbitrary); ok = FALSE is an error of
\* DB.Exec, which processBatch only logs
WorkerUpdate(w, userID, ok) ==
    /\ Running
    /\ wpc[w] = "flush"
    /\ userID \in groups[w]
    /\ ok => dbOpen
    /\ LET shortURLs == GroupIds(taskBuffer[w], userID)
           rest == groups[w] \ {userID}
       IN /\ table' = IF ok THEN batchDeleteURLs(table, userID, shortURLs)
                      ELSE table
          /\ groups' = [groups EXCEPT ![w] = rest]
          /\ wpc' = [wpc EXCEPT ![w] = IF rest = {} THEN "select" ELSE "flush"]
          /\ taskBuffer' = [taskBuffer EXCEPT ![w] =
                               IF rest = {} THEN <<>> ELSE @]
          /\ hist' = [hist EXCEPT
                        !.pending = [t \in Tasks |->
                            IF t.UserID = userID
                            THEN @[t] - CountIn(taskBuffer[w], t) ELSE @[t]],
                        !.applied = IF ok
                                    THEN @ \cup {<<userID, s>> : s \in shortURLs}
                                    ELSE @]
          /\ last' = [NoOp EXCEPT !.op = "update", !.who = ToString(w),
                                  !.owner = userID, !.ids = shortURLs,
                                  !.changed = {s \in DOMAIN table :
                                      table'[s].is_deleted # table[s].is_deleted},
                                  !.err = IF ok THEN ErrNil ELSE ErrStore]
    /\ UNCHANGED <<dbOpen, DeleteChannel, chClosed, WG, closePc, delVars,
                   shortenVars>>
    /\ UNCHANGED extVars

\* ------------------------------------------- URLRepository.Shutdown / Close
\* Shutdown: close(r.DeleteChannel)
CloseChannel ==
    /\ Running
    /\ closePc = "open"
    /\ chClosed' = TRUE
    /\ closePc' = "waiting"
    /\ last' = NoOp
    /\ UNCHANGED <<dbVars, DeleteChannel, WG, wpc, taskBuffer, groups, delVars,
                   shortenVars, hist>>
    /\ UNCHANGED extVars

\* variant: Close that does not wait for the workers
CloseReturnNoWait ==
    /\ Running
    /\ closePc = "waiting"
    /\ dbOpen' = FALSE
    /\ closePc' = "returned"
    /\ last' = NoOp
    /\ UNCHANGED <<table, DeleteChannel, chClosed, WG, wpc, taskBuffer, groups,
                   delVars, shortenVars, hist>>
    /\ UNCHANGED extVars

\* Shutdown: r.WG.Wait() returns; Close: r.DB.Close() and return
CloseReturn ==
    /\ Running
    /\ closePc = "waiting"
    /\ WG = 0
    /\ dbOpen' = FALSE
    /\ closePc' = "returned"
    /\ last' = NoOp
    /\ UNCHANGED <<table, DeleteChannel, chClosed, WG, wpc, taskBuffer, groups,
                   delVars, shortenVars, hist>>
    /\ UNCHANGED extVars

\* ------------------------------------------------------- HTTP handlers
\* net/http status codes used by the handlers
StatusOK == 200
StatusCreated == 201
StatusTemporaryRedirect == 307
StatusBadRequest == 400
StatusNotFound == 404
StatusConflict == 409
StatusGone == 410
StatusInternalServerError == 500

\* cfg.BaseURL + "/" + id
FullShortURL(id) == <<"BaseURL", "/", id>>

\* handleConflictError(err, baseURL)
handleConflictError(err, existing) ==
    IF err = ErrConflict
    THEN [url |-> FullShortURL(existing), isConflict |-> TRUE]
    ELSE [url |-> <<>>, isConflict |-> FALSE]

\* the response PostHandler / PostHandlerJSON write for a result of Shorten
PostHandlerResponse(shortURL, err, existing) ==
    IF handleConflictError(err, existing).isConflict
    THEN [status |-> StatusConflict, body |-> handleConflictError(err, existing).url]
    ELSE IF err # ErrNil THEN [status |-> StatusBadRequest, body |-> <<>>]
    ELSE [status |-> StatusCreated, body |-> FullShortURL(shortURL)]

\* the response GetHandler writes for a result of GetLongURL
GetHandlerResponse(longURL, err) ==
    IF err # ErrNil
    THEN (IF err = ErrURLDeleted THEN [status |-> StatusGone, body |-> <<>>]
          ELSE [status |-> StatusNotFound, body |-> <<>>])
    ELSE [status |-> StatusTemporaryRedirect, body |-> <<longURL>>]

\* PostHandler answers the Shorten call that has just returned
PostHandler ==
    /\ Running
    /\ last.op = "Shorten"
    /\ last' = [last EXCEPT
                  !.op = "PostHandler",
                  !.status = PostHandlerResponse(last.id, last.err, last.existing).status,
                  !.body = PostHandlerResponse(last.id, last.err, last.existing).body]
    /\ UNCHANGED <<dbVars, pipeVars, delVars, shortenVars, hist, extVars>>

\* GetHandler answers the GetLongURL call that has just returned
GetHandler ==
    /\ Running
    /\ last.op = "Get"
    /\ last' = [last EXCEPT
                  !.op = "GetHandler",
                  !.status = GetHandlerResponse(last.url, last.err).status,
                  !.body = GetHandlerResponse(last.url, last.err).body]
    /\ UNCHANGED <<dbVars, pipeVars, delVars, shortenVars, hist, extVars>>

\* DBConfig.PingDB: sql.Open and db.Ping; on an error of either one it calls
\* log.Fatal, which ends the process with status 1 before the return
PingDB(down) ==
    IF down THEN [err |-> ErrStore, fatal |-> TRUE]
    ELSE [err |-> ErrNil, fatal |-> FALSE]

\* ctx.Status(code) while nothing has been written: the status of the
\* response becomes code
ctxStatus(status, code) == code

\* the status PingHandler leaves in the response for a result of PingDB:
\* the error branch sets 500 and does not return
PingHandlerResponse(err) ==
    LET s1 == IF err # ErrNil
              THEN ctxStatus(StatusOK, StatusInternalServerError)
              ELSE StatusOK
    IN ctxStatus(s1, StatusOK)

\* GET /ping while the database is reachable or down
PingHandler(down) ==
    /\ Running
    /\ IF PingDB(down).fatal
       THEN /\ exitCode' = 1
            /\ appPc' = "exited"
            /\ last' = [NoOp EXCEPT !.op = "Ping", !.err = PingDB(down).err]
       ELSE /\ last' = [NoOp EXCEPT
                          !.op = "Ping", !.err = PingDB(down).err,
                          !.status = PingHandlerResponse(PingDB(down).err)]
            /\ UNCHANGED <<exitCode, appPc>>
    /\ UNCHANGED <<dbVars, pipeVars, delVars, shortenVars, hist, backend,
                   fileVars, timedOut>>

\* ------------------------------------------------- main: gracefulShutdown
\* a termination signal arrives: sig := <-quit, the 30 s context is created
\* and app.Shutdown(ctx) calls a.server.Shutdown(ctx)
Signal ==
    /\ Running
    /\ appPc = "serving"
    /\ appPc' = "serverShutdown"
    /\ last' = NoOp
    /\ UNCHANGED <<dbVars, pipeVars, delVars, shortenVars, hist, backend,
                   fileVars, timedOut, exitCode>>

\* a.server.Shutdown(ctx) returns: nil when every request handler has
\* returned, and App.Shutdown goes on to a.Close(); or the error of the
\* expired context, which App.Shutdown returns and gracefulShutdown logs
\* before it calls app.Close()
ServerShutdown(expired) ==
    /\ Running
    /\ appPc = "serverShutdown"
    /\ ~expired => delPc = "idle"
    /\ timedOut' = expired
    /\ appPc' = IF expired THEN "close" ELSE "shutdownClose"
    /\ last' = NoOp
    /\ UNCHANGED <<dbVars, pipeVars, delVars, shortenVars, hist, backend,
                   fileVars, exitCode>>

\* App.Close calls a.repo.Close(), which calls Shutdown: close(DeleteChannel)
\* and then waits for the workers; closing the channel a second time panics
\* and the process ends with the status of an unrecovered panic
AppRepoClose ==
    /\ Running
    /\ backend = "database"
    /\ appPc \in {"shutdownClose", "close"}
    /\ IF closePc = "open"
       THEN /\ chClosed' = TRUE
            /\ closePc' = "waiting"
            /\ appPc' = IF appPc = "close" THEN "closeWait"
                        ELSE "shutdownCloseWait"
            /\ UNCHANGED exitCode
       ELSE /\ appPc' = "exited"
            /\ exitCode' = 2
            /\ UNCHANGED <<chClosed, closePc>>
    /\ last' = NoOp
    /\ UNCHANGED <<dbVars, DeleteChannel, WG, wpc, taskBuffer, groups, delVars,
                   shortenVars, hist, backend, fileVars, timedOut>>

\* a.repo.Close() has returned and App.Close returns: inside App.Shutdown
\* gracefulShutdown goes on to its own app.Close(); after that one it logs
\* and returns, main returns and the process exits with status 0
AppCloseDone ==
    /\ Running
    /\ appPc \in {"shutdownCloseWait", "closeWait"}
    /\ closePc = "returned"
    /\ appPc' = IF appPc = "closeWait" THEN "exited" ELSE "close"
    /\ exitCode' = IF appPc = "closeWait" THEN 0 ELSE exitCode
    /\ last' = NoOp
    /\ UNCHANGED <<dbVars, pipeVars, delVars, shortenVars, hist, backend,
                   fileVars, timedOut>>

\* ------------------------------------------------------------------- Next
\* the request goroutines in P run Shorten
ServiceNext(P) ==
    \/ \E p \in P, v \in URLs, u \in Owners : ShortenCall(p, v, u)
    \/ \E p \in P, s \in Ids : ShortenProbe(p, s)
    \/ \E p \in P : StoreInsert(p)
    \/ \E p \in P : StoreLookup(p)

\* DeleteURLs callers and the delete workers
PipeNext ==
    \/ \E u \in Owners, ids \in SeqsUpTo(Ids, hist.tasks) : DeleteURLsCall(u, ids)
    \/ DeleteURLsOffer
    \/ \E w \in Workers : WorkerReceive(w)
    \/ \E w \in Workers : WorkerTimer(w)
    \/ \E w \in Workers, u \in Owners, ok \in BOOLEAN : WorkerUpdate(w, u, ok)

\* Close of the repository and the workers' exit on the closed channel
CloseNext ==
    \/ CloseChannel
    \/ \E w \in Workers : WorkerClosed(w)
    \/ CloseReturn

\* tables left in the database by earlier runs of the program: one live
\* record; two live records of two owners; a live and a tombstoned record
TableOne == InsertRow(<<>>, "i1", "v1", "u1")
TableTwo == InsertRow(TableOne, "i2", "v2", "u2")
TableGone == batchDeleteURLs(TableTwo, "u2", {"i2"})
\* one tombstoned record, the other URL is not mapped
TableOneGone == batchDeleteURLs(TableOne, "u1", {"i1"})

\* the running program, before Close: resolution, one request goroutine in
\* Shorten at a time, and the deletion pipeline
Init == InitWith(TableOne, SpecCalls, SpecTasks)
Next == (\E s \in Ids : GetLongURL(s)) \/ ServiceNext({"p1"}) \/ PipeNext
Spec == Init /\ [][Next]_vars

\* the same program observed through GetUserURLs instead of GetLongURL
InitList == InitWith(TableOne, SpecCalls, SpecTasks)
NextList ==
    \/ \E u \in Owners : GetUserURLsCall(u)
    \/ ServiceNext({"p1"})
    \/ PipeNext
SpecList == InitList /\ [][NextList]_vars

\* the service on its own, with concurrent Shorten calls: no deletion is
\* requested, the store is not closed
InitStore == \E tbl \in {<<>>, TableGone} : InitWith(tbl, MaxShortenCalls, 0)
NextStore == (\E s \in Ids : GetLongURL(s)) \/ ServiceNext(Procs)
SpecStore == InitStore /\ [][NextStore]_vars

\* the service called by the HTTP handlers, one request at a time
InitHttp == \E tbl \in {<<>>, TableGone} : InitWith(tbl, MaxShortenCalls, 0)
NextHttp ==
    \/ \E s \in Ids : GetLongURL(s)
    \/ ServiceNext({"p1"})
    \/ PostHandler
    \/ GetHandler
    \/ \E down \in BOOLEAN : PingHandler(down)
SpecHttp == InitHttp /\ [][NextHttp]_vars

\* Store reached with an identifier that is in use: by two racing Shorten
\* calls on the empty table, or by one call after a tombstoned probe
InitCollide == \E tbl \in {<<>>, TableOneGone} : InitWith(tbl, MaxStoreCalls, 0)
NextCollide == (\E s \in Ids : GetLongURL(s)) \/ ServiceNext(Procs)
SpecCollide == InitCollide /\ [][NextCollide]_vars

\* the service on the memory or on the file repository (file absent at
\* start), with concurrent Shorten calls; the variables of the relational
\* store are not used
InitMem ==
    /\ InitRepo(<<>>, MaxMemCalls, 0)
    /\ backend \in {"memory", "file"}
    /\ urls = NewURLRepository(FALSE, <<>>)
    /\ file = <<>>
    /\ fileExists = FALSE
\* the request goroutines in P run Shorten on the memory / file repository
MemServiceNext(P) ==
    \/ \E s \in Ids : GetLongURL(s)
    \/ \E p \in P, v \in URLs, u \in Owners : ShortenCall(p, v, u)
    \/ \E p \in P, s \in Ids : ShortenProbe(p, s)
    \/ \E p \in P : MemStoreBegin(p)
    \/ \E p \in P, q \in SeqsUpTo(Ids, Cardinality(Ids)) : MemStoreEnd(p, q)
NextMem == MemServiceNext(Procs) \/ MapRaceFatal
SpecMem == InitMem /\ [][NextMem]_vars

\* the memory or file repository used by one request goroutine at a time,
\* with the listing and deletion requests
InitInert ==
    /\ InitRepo(<<>>, MaxMemCalls, 0)
    /\ backend \in {"memory", "file"}
    /\ urls = NewURLRepository(FALSE, <<>>)
    /\ file = <<>>
    /\ fileExists = FALSE
NextInert ==
    \/ MemServiceNext({"p1"})
    \/ \E u \in Owners : GetUserURLsCall(u)
    \/ \E u \in Owners, ids \in SeqsUpTo(Ids, 1) : MemDeleteURLsCall(u, ids)
SpecInert == InitInert /\ [][NextInert]_vars

\* files found at path when the program starts: none, an empty one, one
\* that is not a JSON array, arrays of up to MaxRecs records, and an array
\* followed by more bytes
Records == [ShortURL : Ids, OriginalURL : URLs]
StartFiles ==
    {[exists |-> FALSE, toks |-> <<>>], [exists |-> TRUE, toks |-> <<>>],
     [exists |-> TRUE, toks |-> <<"{", "i1", ":", "h", "}">>]}
    \cup {[exists |-> TRUE, toks |-> Marshal(recs)] :
              recs \in SeqsUpTo(Records, MaxRecs)}
    \cup {[exists |-> TRUE, toks |-> Marshal(recs) \o <<"}", "]">>] :
              recs \in SeqsUpTo(Records, 1)}

\* the file repository across restarts of the process: Store is called
\* directly, by one goroutine
InitFile ==
    /\ InitRepo(<<>>, MaxFileCalls, 0)
    /\ backend = "none"
    /\ urls = <<>>
    /\ \E f \in StartFiles : file = f.toks /\ fileExists = f.exists
NextFile ==
    \/ NewFileRepository
    \/ \E s \in Ids, v \in URLs, q \in SeqsUpTo(Ids, Cardinality(Ids)) :
          FileStore(s, v, q)
    \/ \E q \in SeqsUpTo(Ids, Cardinality(Ids)) : FileClose(q)
    \/ \E s \in Ids : GetLongURL(s)
SpecFile == InitFile /\ [][NextFile]_vars

\* the program on the relational store from a termination signal to its
\* exit: delete requests, the workers and gracefulShutdown
InitShutdown == InitWith(TableTwo, 0, ShutdownTasks)
NextShutdown ==
    \/ PipeNext
    \/ Signal
    \/ \E expired \in BOOLEAN : ServerShutdown(expired)
    \/ AppRepoClose
    \/ \E w \in Workers : WorkerClosed(w)
    \/ CloseReturn
    \/ AppCloseDone
SpecShutdown == InitShutdown /\ [][NextShutdown]_vars

\* the deletion pipeline on its own: no Shorten call is made
InitPipe == InitWith(TableTwo, 0, MaxTasks)
NextPipe == PipeNext \/ CloseNext
SpecPipe == InitPipe /\ [][NextPipe]_vars

\* the deletion pipeline with its scheduling: a worker goroutine that can
\* take a branch of its select, or has a bulk update to issue, eventually
\* does so (the database answers every update, with a result or an error);
\* the batch timer eventually fires; the goroutine in Close is scheduled
FairPipe ==
    /\ \A w \in Workers : WF_vars(WorkerReceive(w))
    /\ \A w \in Workers : WF_vars(WorkerClosed(w))
    /\ \A w \in Workers : WF_vars(WorkerTimer(w))
    /\ \A w \in Workers :
          WF_vars(\E u \in Owners, ok \in BOOLEAN : WorkerUpdate(w, u, ok))
    /\ WF_vars(CloseReturn)
InitLive == InitWith(TableTwo, 0, LiveTasks)
NextLive == PipeNext \/ CloseNext
SpecLive == InitLive /\ [][NextLive]_vars /\ FairPipe

\* ================================================================= claims
Tombstoned(s) == s \in DOMAIN table /\ table[s].is_deleted

\* C1 (stated as claimed): once Close has returned, every task that was
\* accepted into the queue has been included in a bulk update.
ShutdownDrains ==
    closePc = "returned" => \A t \in Tasks : hist.pending[t] = 0

\* C2: a successful Shorten(v, u) = id makes every later GetLongURL(id) on
\* the open store return exactly v until a successful bulk update for (u, id)
\* has been applied and Gone afterwards; NotFound or another URL is never
\* observed for id.
RoundTrip ==
    last.op = "Get" =>
        \A rec \in hist.shortened :
            rec.su = last.id =>
                /\ last.err # ErrNotFound
                /\ last.url \in {NoStr, rec.longURL}
                /\ dbOpen =>
                     IF <<rec.owner, rec.su>> \in hist.applied
                     THEN last.err = ErrURLDeleted /\ last.url = NoStr
                     ELSE last.err = ErrNil /\ last.url = rec.longURL

RoundTripWitness ==
    /\ last.op = "Get"
    /\ last.err = ErrURLDeleted
    /\ \E rec \in hist.shortened : rec.su = last.id

\* C3: a bulk update issued for owner u2 never changes is_deleted of a record
\* owned by another owner, whatever else is in the worker's buffer, so Get
\* answers the same before and after it; a flag only changes in an update
\* issued for the record's owner that lists the record.
OwnershipFence ==
    [][\A s \in DOMAIN table :
          /\ (last'.op = "update" /\ last'.owner # table[s].user_id) =>
                /\ table'[s].is_deleted = table[s].is_deleted
                /\ Get(table', dbOpen', s) = Get(table, dbOpen, s)
          /\ (s \in DOMAIN table' /\ table'[s].is_deleted # table[s].is_deleted) =>
                /\ last'.op = "update"
                /\ last'.owner = table[s].user_id
                /\ s \in last'.ids]_vars

\* a successful update of a foreign owner's group listing a live record, taken
\* from a buffer that also holds a group of another owner
OwnershipFenceWitness ==
    /\ last.op = "update"
    /\ last.err = ErrNil
    /\ \E s \in last.ids : s \in DOMAIN table /\ table[s].user_id # last.owner
                           /\ ~table[s].is_deleted
    /\ \E w \in Workers : wpc[w] = "flush" /\ ToString(w) = last.who
                          /\ groups[w] # {}

\* C4 (stated as claimed): a Shorten(v, u) that does not fail with a store or
\* exhaustion error returns a fresh identifier or ConflictExists{id}, and after
\* ConflictExists{id} an immediate GetLongURL(id) returns v.
ShortenOutcome ==
    (last.op = "Shorten" /\ last.err \notin {ErrStore, ErrExhausted}) =>
        \/ /\ last.err = ErrNil
           /\ last.fresh
           /\ Get(table, dbOpen, last.id) = [url |-> last.url, err |-> ErrNil]
        \/ /\ last.err = ErrConflict
           /\ Get(table, dbOpen, last.existing) = [url |-> last.url, err |-> ErrNil]

\* C5: Get of a tombstoned record never returns the URL and never NotFound,
\* and on the open store it returns Gone with an empty URL; Get of a never
\* stored identifier never returns Gone, and on the open store it returns
\* NotFound.
ResolveHidesTombstones ==
    last.op = "Get" =>
        /\ Tombstoned(last.id) =>
              /\ last.url = NoStr
              /\ last.err \notin {ErrNil, ErrNotFound}
              /\ dbOpen => last.err = ErrURLDeleted
        /\ last.id \notin DOMAIN table =>
              /\ last.url = NoStr
              /\ last.err \notin {ErrNil, ErrURLDeleted}
              /\ dbOpen => last.err = ErrNotFound

ResolveHidesTombstonesWitness ==
    last.op = "Get" /\ Tombstoned(last.id) /\ last.err = ErrURLDeleted

\* C6: is_deleted of a record only ever changes from false to true: a
\* tombstoned record stays in the table and stays tombstoned in every step.
TombstoneMonotone ==
    [][\A s \in DOMAIN table :
          table[s].is_deleted => s \in DOMAIN table' /\ table'[s].is_deleted]_vars

\* a Shorten of the original URL of a tombstoned record has returned
TombstoneMonotoneWitness ==
    /\ last.op = "Shorten"
    /\ \E s \in DOMAIN table : table[s].is_deleted /\ table[s].long_url = last.url

\* C7: the flags depend only on which (owner, id) updates were applied, not on
\* how often: a record is tombstoned exactly when an update of its owner
\* listing it has succeeded, and a successful update whose (owner, id) pairs
\* had all been applied before changes nothing.
Idempotence ==
    /\ [](\A s \in DOMAIN table :
             table[s].is_deleted <=> <<table[s].user_id, s>> \in hist.applied)
    /\ [][(/\ last'.op = "update"
           /\ last'.err = ErrNil
           /\ \A s \in last'.ids : <<last'.owner, s>> \in hist.applied)
          => table' = table]_vars

\* the owner's update of an already tombstoned record succeeded and changed
\* no row
IdempotenceWitness ==
    /\ last.op = "update"
    /\ last.err = ErrNil
    /\ last.changed = {}
    /\ \E s \in last.ids : Tombstoned(s) /\ table[s].user_id = last.owner

\* C8: a DeleteURLs call in flight can always take its next step and each
\* step shortens what is left of its list; while the queue is open no worker
\* has exited, every worker can take a step, and a queued task can be received
\* or some worker is flushing.
NoBlocking ==
    /\ [](delPc = "loop" =>
             /\ ENABLED DeleteURLsOffer
             /\ Len(delRest) \in 1..(hist.tasks))
    /\ [][delPc = "loop" => Len(delRest') < Len(delRest)]_delVars
    /\ [](~chClosed =>
             /\ \A w \in Workers : wpc[w] \in {"select", "flush"}
             /\ \A w \in Workers :
                   wpc[w] = "flush" => ENABLED WorkerUpdate(w, CHOOSE u \in groups[w] : TRUE, FALSE)
             /\ DeleteChannel # <<>> =>
                   \E w \in Workers : \/ ENABLED WorkerReceive(w)
                                      \/ wpc[w] = "flush")

\* a task was dropped because the queue was full
NoBlockingWitness ==
    /\ last.op = "offer"
    /\ last.err = "dropped"
    /\ Len(DeleteChannel) = queueCap
    /\ ~chClosed

\* C9: the INSERT of Store(id2, url, owner2) on a table that maps url to another
\* identifier id1 inserts nothing and leaves the table unchanged, the lookup
\* that follows returns ConflictExists{id1}, and ConflictExists only ever
\* carries the identifier of a record that maps url.
ConflictOnDuplicate ==
    /\ [][\A p \in Procs :
             /\ (/\ spc[p] = "store"
                 /\ spc'[p] # "store"
                 /\ dbOpen
                 /\ RowsWithLong(table, sreq[p].longURL) \ {sreq[p].su} # {})
                => (spc'[p] = "lookup" /\ table' = table)
             /\ (/\ spc[p] = "lookup"
                 /\ spc'[p] # "lookup"
                 /\ dbOpen)
                => /\ table' = table
                   /\ last'.op = "Shorten"
                   /\ last'.who = p
                   /\ IF RowsWithLong(table, sreq[p].longURL) # {}
                      THEN /\ last'.err = ErrConflict
                           /\ RowsWithLong(table, sreq[p].longURL) = {last'.existing}
                      ELSE last'.err = ErrStore]_vars
    /\ []((last.op = "Shorten" /\ last.err = ErrConflict) =>
             /\ last.existing \in DOMAIN table
             /\ table[last.existing].long_url = last.url)

\* Store(id2, url, owner2) met the record (id1, url, owner1)
ConflictOnDuplicateWitness ==
    /\ last.op = "Shorten"
    /\ last.err = ErrConflict
    /\ last.cand # last.existing
    /\ last.existing \in DOMAIN table
    /\ table[last.existing].user_id # last.owner

\* the second of two Shorten calls that ran concurrently for the same URL has
\* just returned; last.peer is the result of the first
RaceDone == last.op = "Shorten" /\ last.peer.who # NoStr

\* C10 (stated as claimed): of two concurrent Shorten calls for a URL v that
\* was unmapped when they started, exactly one succeeds with a fresh identifier
\* id and the other returns ConflictExists{id}; v never has two records.
RacingExactlyOne ==
    /\ \A v \in URLs : Cardinality(RowsWithLong(table, v)) <= 1
    /\ (RaceDone /\ last.fresh /\ last.peer.fresh) =>
          \/ /\ last.peer.err = ErrNil
             /\ last.err = ErrConflict
             /\ last.existing = last.peer.su
          \/ /\ last.err = ErrNil
             /\ last.peer.err = ErrConflict
             /\ last.peer.existing = last.id

\* C10 (amended): of two concurrent Shorten calls for the same URL v at most
\* one succeeds; when one succeeds with id the other returns
\* ConflictExists{id} or fails with the exhaustion or a store error; v never
\* has two records.
RacingShorteners ==
    /\ \A v \in URLs : Cardinality(RowsWithLong(table, v)) <= 1
    /\ RaceDone =>
          /\ ~(last.err = ErrNil /\ last.peer.err = ErrNil)
          /\ last.peer.err = ErrNil =>
                /\ last.err \in {ErrConflict, ErrExhausted, ErrStore}
                /\ last.err = ErrConflict => last.existing = last.peer.su
          /\ last.err = ErrNil =>
                /\ last.peer.err \in {ErrConflict, ErrExhausted, ErrStore}
                /\ last.peer.err = ErrConflict => last.peer.existing = last.id

\* the loser of a race on a fresh URL got the winner's identifier
RacingShortenersWitness ==
    /\ RaceDone
    /\ last.fresh
    /\ last.peer.fresh
    /\ last.peer.err = ErrNil
    /\ last.err = ErrConflict
    /\ last.existing = last.peer.su

\* C11 (stated as claimed): on every backend two successful Shorten calls
\* never return the same identifier, and the mapping created by a successful
\* Shorten is never overwritten by another one.
UniqueIdentifiers ==
    /\ \A a, b \in hist.shortened : a.su = b.su => a = b
    /\ \A a \in hist.shortened :
          RepoGet(a.su).err = ErrNil => RepoGet(a.su).url = a.longURL

\* C12: Shorten probes one candidate at a time; a probe that returns a live
\* URL is followed by the next probe and no Store, the first probe that does
\* not return a live URL is followed by the one Store call of the invocation,
\* on that candidate; a failing Shorten returns the empty identifier; the
\* exhaustion error is returned after exactly maxAttempts probes and no Store.
AllocationLoop ==
    /\ [](last.op = "Shorten" =>
            /\ last.err = ErrExhausted =>
                  last.probes = maxAttempts /\ last.stores = 0
            /\ last.err # ErrExhausted =>
                  last.stores = 1 /\ last.probes <= maxAttempts
            /\ last.err # ErrNil => last.id = NoStr)
    /\ [][\A p \in Procs :
            spc[p] = "probe" /\ sreq'[p].probes = sreq[p].probes + 1 =>
               IF RepoGet(last'.cand).err = ErrNil
               THEN spc'[p] = "probe" /\ sreq'[p].stores = sreq[p].stores
               ELSE /\ spc'[p] = "store"
                    /\ sreq'[p].su = last'.cand
                    /\ sreq'[p].stores = sreq[p].stores + 1]_vars
    /\ [][DOMAIN table' # DOMAIN table =>
            \E p \in Procs : /\ spc[p] = "store" /\ sreq[p].stores = 1
                             /\ DOMAIN table' = DOMAIN table \cup {sreq[p].su}]_vars

\* C12 witness: a Shorten call succeeded after a colliding probe
AllocationLoopWitness ==
    last.op = "Shorten" /\ last.err = ErrNil /\ last.probes > 1
        /\ last.stores = 1

\* C13: GetUserURLs(u) on the relational store returns one pair per record
\* owned by u, tombstoned records included, nothing of another owner, most
\* recently created first.
ListByOwner ==
    last.op = "list" /\ last.err = ErrNil =>
        /\ Len(last.pairs) = Cardinality(OwnedBy(table, last.owner))
        /\ {last.pairs[i].ShortURL : i \in DOMAIN last.pairs}
              = OwnedBy(table, last.owner)
        /\ \A i \in DOMAIN last.pairs :
              /\ last.pairs[i].ShortURL \in DOMAIN table
              /\ last.pairs[i].OriginalURL = table[last.pairs[i].ShortURL].long_url
        /\ \A i, j \in DOMAIN last.pairs :
              i < j => table[last.pairs[i].ShortURL].created_at
                          > table[last.pairs[j].ShortURL].created_at

\* C13 witness: a list of two records, one of them tombstoned, while another
\* owner has none
ListByOwnerWitness ==
    /\ last.op = "list" /\ last.err = ErrNil /\ Len(last.pairs) = 2
    /\ \E i \in DOMAIN last.pairs : Tombstoned(last.pairs[i].ShortURL)

\* C16: on the memory and file repositories GetUserURLs returns no list and
\* the not-implemented error, DeleteURLs returns with the map unchanged and
\* the process running, and Get never returns Gone.
InertOperations ==
    /\ last.op = "list" => last.pairs = <<>> /\ last.err = ErrNotImplemented
    /\ last.op = "delete" => urls = last.prev /\ Running
    /\ last.op = "Get" => last.err # ErrURLDeleted

\* C16 witness: DeleteURLs was called for an identifier that is stored
InertOperationsWitness ==
    last.op = "delete" /\ last.ids # {} /\ last.ids \subseteq DOMAIN urls

\* C17 (stated as claimed): no write of the urls map is concurrent with
\* another write or with a read of it.
MapMutualExclusion ==
    /\ \A p, r \in Procs :
          p # r => ~(spc[p] = "writing" /\ spc[r] = "writing")
    /\ last.op = "probe" =>
          \A p \in Procs \ {last.who} : spc[p] # "writing"
    /\ last.op = "Get" => \A p \in Procs : spc[p] # "writing"

\* C14 (stated as claimed): a file repository opened after a Close holds the
\* same identifier -> URL mapping as the repository that was closed.
FilePersistence ==
    last.op = "open" /\ last.who = "reopened" => urls = last.prev

\* the map a record array stands for: the last record of an identifier wins
LastWins(recs) ==
    [s \in {recs[i].ShortURL : i \in DOMAIN recs} |->
        LET k == CHOOSE i \in DOMAIN recs :
                    /\ recs[i].ShortURL = s
                    /\ \A j \in DOMAIN recs : recs[j].ShortURL = s => j <= i
        IN recs[k].OriginalURL]

\* C15: NewURLRepository returns a usable repository; when the file is the
\* JSON array of some records the map holds exactly those records, when the
\* file is missing, empty or not such an array the map is empty and the
\* process keeps running; Store and Get then behave normally.
StartupLoads ==
    /\ last.op = "open" =>
          /\ Running /\ backend = "file" /\ closePc = "open"
          /\ \A recs \in SeqsUpTo(Records, MaxRecs) :
                fileExists /\ file = Marshal(recs) => urls = LastWins(recs)
          /\ (~fileExists \/ file = <<>>
                \/ \A recs \in SeqsUpTo(Records, MaxRecs) : file # Marshal(recs))
                => urls = <<>>
    /\ last.op = "Store" =>
          /\ MemGet(urls, last.id) = [url |-> last.url, err |-> ErrNil]
          /\ \A s \in DOMAIN last.prev \ {last.id} :
                MemGet(urls, s) = MemGet(last.prev, s)
    /\ last.op = "Get" /\ backend = "file" =>
          IF last.id \in DOMAIN urls
          THEN last.err = ErrNil /\ last.url = urls[last.id]
          ELSE last.err = ErrNotFound

\* C15 witness: a file of two records was loaded into the map
StartupLoadsWitness ==
    last.op = "open" /\ last.who = "started"
        /\ Cardinality(DOMAIN urls) = 2 /\ urls["i1"] # urls["i2"]

\* C18: the database handle is closed only after the delete queue was closed
\* and all workers have signalled exit through the WaitGroup, and no worker
\* runs a bulk update once the handle is closed.
ShutdownOrdering ==
    /\ [](~dbOpen => /\ chClosed
                     /\ WG = 0
                     /\ \A w \in Workers : wpc[w] = "done")
    /\ [][dbOpen /\ ~dbOpen' => chClosed /\ WG = 0 /\ closePc = "waiting"]_vars
    /\ [][~dbOpen => ~(last'.op = "update" /\ groups' # groups)]_vars

\* C18 witness: Close has returned after the workers ran a bulk update
ShutdownOrderingWitness ==
    closePc = "returned" /\ ~dbOpen /\ hist.applied # {}

\* C19 (stated as claimed): when the timeout of the shutdown has elapsed
\* before the repository was closed, the process exits with a nonzero status.
BoundedShutdown ==
    exitCode # NoExit /\ timedOut => exitCode # 0

\* C20 (stated as claimed): the shorten handler answers 409 with the existing
\* short URL on ConflictExists and 500 on exhaustion, the redirect handler
\* answers 410 on Gone and 404 on NotFound.
TransportMapping ==
    /\ last.op = "PostHandler" /\ last.err = ErrConflict =>
          last.status = 409 /\ last.body = FullShortURL(last.existing)
    /\ last.op = "PostHandler" /\ last.err = ErrExhausted => last.status = 500
    /\ last.op = "GetHandler" /\ last.err = ErrURLDeleted => last.status = 410
    /\ last.op = "GetHandler" /\ last.err = ErrNotFound => last.status = 404

PingStatus ==
    last.op = "Ping" =>
        /\ last.err # ErrNil => last.status = 500
        /\ last.status = 200 => last.err = ErrNil

\* C23: once Close has closed the queue, whatever the workers and the queue
\* hold at that moment, every worker eventually exits, the WaitGroup reaches
\* zero and Close returns.
CloseTerminates ==
    (closePc = "waiting") ~>
        (closePc = "returned" /\ WG = 0 /\ \A w \in Workers : wpc[w] = "done")

\* C23 witness: Close has returned, every worker has exited, and a task that
\* was accepted before the close was part of an update
CloseTerminatesWitness ==
    /\ closePc = "returned"
    /\ WG = 0
    /\ DeleteChannel = <<>>
    /\ \A w \in Workers : wpc[w] = "done"
    /\ last.op = "none"
    /\ hist.applied # {}
    /\ hist.tasks = 0

\* C24: a worker's buffer never holds more than batchSize tasks and a worker
\* waiting at its select holds fewer; the receive that fills the buffer starts
\* the flush; a flush issues one bulk update per owner present in the buffer,
\* each listing exactly the identifiers buffered for that owner; the flush
\* ends when every owner had its update, and leaves the buffer empty.
FlushStep ==
    /\ [](\A w \in Workers :
            /\ Len(taskBuffer[w]) <= batchSize
            /\ wpc[w] = "select" => Len(taskBuffer[w]) < batchSize /\ groups[w] = {}
            /\ wpc[w] = "flush" =>
                  /\ groups[w] # {}
                  /\ groups[w] \subseteq
                        {taskBuffer[w][k].UserID : k \in DOMAIN taskBuffer[w]})
    /\ [][\A w \in Workers :
            /\ (wpc[w] = "select" /\ wpc'[w] = "flush") =>
                  /\ taskBuffer'[w] # <<>>
                  /\ (Len(taskBuffer'[w]) = batchSize \/ taskBuffer'[w] = taskBuffer[w])
                  /\ groups'[w] =
                        {taskBuffer'[w][k].UserID : k \in DOMAIN taskBuffer'[w]}
            /\ (wpc[w] = "select" /\ Len(taskBuffer'[w]) = batchSize) =>
                  wpc'[w] = "flush"
            /\ (wpc[w] = "flush" /\ groups'[w] # groups[w]) =>
                  /\ last'.op = "update"
                  /\ last'.who = ToString(w)
                  /\ last'.owner \in groups[w]
                  /\ groups'[w] = groups[w] \ {last'.owner}
                  /\ last'.ids =
                        {taskBuffer[w][k].ShortURL :
                            k \in {j \in DOMAIN taskBuffer[w] :
                                      taskBuffer[w][j].UserID = last'.owner}}
                  /\ IF groups'[w] = {}
                     THEN wpc'[w] = "select" /\ taskBuffer'[w] = <<>>
                     ELSE wpc'[w] = "flush" /\ taskBuffer'[w] = taskBuffer[w]
            /\ (wpc[w] = "flush" /\ groups'[w] = groups[w]) =>
                  wpc'[w] = "flush" /\ taskBuffer'[w] = taskBuffer[w]]_vars

\* C24 witness: a full buffer holding tasks of two owners is being flushed,
\* the update of the first owner is done
FlushStepWitness ==
    /\ last.op = "update"
    /\ \E w \in Workers :
          /\ ToString(w) = last.who
          /\ wpc[w] = "flush"
          /\ Len(taskBuffer[w]) = batchSize
          /\ groups[w] # {}
          /\ last.owner \notin groups[w]
          /\ \E k \in DOMAIN taskBuffer[w] : taskBuffer[w][k].ShortURL \notin last.ids

\* C25: when the batch timer of a worker expires with a non-empty buffer the
\* worker starts flushing that buffer, with an empty buffer the expiry issues
\* no update and changes nothing; every task accepted into the queue is
\* eventually part of a bulk update unless the queue is closed.
TimerFlush ==
    /\ [][\A w \in Workers :
            WorkerTimer(w) =>
               IF taskBuffer[w] # <<>>
               THEN /\ wpc'[w] = "flush"
                    /\ taskBuffer'[w] = taskBuffer[w]
                    /\ groups'[w] =
                          {taskBuffer[w][k].UserID : k \in DOMAIN taskBuffer[w]}
               ELSE /\ last'.op # "update"
                    /\ UNCHANGED <<table, wpc, taskBuffer, groups, hist>>]_vars
    /\ \A t \in Tasks :
          (hist.pending[t] > 0) ~> (hist.pending[t] = 0 \/ chClosed)

\* C25 witness: on the open queue a buffer that never filled up was flushed
\* and no accepted task is left waiting
TimerFlushWitness ==
    /\ last.op = "update"
    /\ ~chClosed
    /\ Cardinality(last.ids) < batchSize
    /\ \A w \in Workers : taskBuffer[w] = <<>>
    /\ \A t \in Tasks : hist.pending[t] = 0

\* the copies of task t a worker holds for an update that is still to come
HeldBy(w, t) ==
    IF wpc[w] = "flush" /\ t.UserID \notin groups[w] THEN 0
    ELSE CountIn(taskBuffer[w], t)

RECURSIVE HeldUpTo(_, _)
HeldUpTo(n, t) == IF n = 0 THEN 0 ELSE HeldBy(n, t) + HeldUpTo(n - 1, t)

\* the copies of task t in the queue and in the workers' buffers
Held(t) == CountIn(DeleteChannel, t) + HeldUpTo(numWorkers, t)

\* C26: an accepted task is in the queue or in the buffer of one worker until
\* the one bulk update that includes it, and nowhere afterwards; a failed
\* update changes no record and puts nothing back into the queue, the worker
\* goes on with the remaining groups of the batch, clears the buffer after the
\* last one and keeps running; an update never affects a DeleteURLs call.
AtMostOnce ==
    /\ [](\A t \in Tasks :
            /\ hist.pending[t] >= 0
            /\ Held(t) <= hist.pending[t]
            /\ (\A w \in Workers : wpc[w] # "done") => Held(t) = hist.pending[t])
    /\ [][\A w \in Workers :
            (last'.op = "update" /\ last'.who = ToString(w)) =>
               /\ \A t \in Tasks :
                     Held(t)' = Held(t) - (IF t.UserID = last'.owner
                                          THEN CountIn(taskBuffer[w], t) ELSE 0)
               /\ DeleteChannel' = DeleteChannel
               /\ UNCHANGED delVars
               /\ Running'
               /\ wpc'[w] \in {"select", "flush"}
               /\ groups'[w] = groups[w] \ {last'.owner}
               /\ groups'[w] = {} => wpc'[w] = "select" /\ taskBuffer'[w] = <<>>
               /\ groups'[w] # {} => wpc'[w] = "flush"
               /\ last'.err # ErrNil => table' = table]_vars

\* C26 witness: a bulk update failed on the open database and the worker is
\* left with the group of another owner of the same batch
AtMostOnceWitness ==
    /\ last.op = "update"
    /\ last.err = ErrStore
    /\ dbOpen
    /\ \E w \in Workers :
          /\ ToString(w) = last.who
          /\ wpc[w] = "flush"
          /\ groups[w] # {}
          /\ last.owner \notin groups[w]

\* C27 (stated as claimed): a DeleteURLs call that offers a task after the
\* delete queue was closed enqueues nothing and returns normally; no send
\* ever hits the closed queue.
EnqueueAfterClose ==
    /\ ~hist.sendPanic
    /\ (last.op = "offer" /\ chClosed) => last.err = "dropped"

\* C28 (stated as claimed): gracefulShutdown runs the repository's Close at
\* most once, whether server.Shutdown succeeds or fails, and ends in the
\* stopped state without a crash.
SingleClose ==
    /\ appPc = "close" => closePc = "open"
    /\ appPc = "exited" => exitCode = 0

\* C29 (stated as claimed): with one Shorten call at a time on the relational
\* store, Store is never called with an identifier that is in the table, live
\* or tombstoned, and a Shorten of an unmapped URL never fails with the store
\* error while the database is open.
PrecheckSufficient ==
    /\ \A p \in Procs : spc[p] = "store" => sreq[p].su \notin DOMAIN table
    /\ (last.op = "Shorten" /\ last.fresh /\ dbOpen) => last.err # ErrStore

====
